---- MODULE Spec2Model ----
(***************************************************************************)
(* Model of atradebot/utils.py: the business-day calendar helpers, the     *)
(* stride-5 peak/valley scan, the amplitude filter and get_forecast.       *)
(*                                                                         *)
(* Dates are day numbers; day 0 is Monday 2023-05-01, so that              *)
(* date.weekday() is (day % 7) with Monday = 0.  Python lists are          *)
(* functions on 0..len-1 (arrays) or sequences (index lists).  Floats are  *)
(* exact rationals with a NaN flag; close prices are positive integers.    *)
(***************************************************************************)
EXTENDS Integers, Sequences, FiniteSets, TLC

VARIABLES call, pc, start_date, num_days, out_date, bd_log,
          array, peaks, valleys, fp_kind, fp_out,
          date, add_days, market, s, e, price, forecast, idx, fetches,
          outcome

vars == <<call, pc, start_date, num_days, out_date, bd_log,
          array, peaks, valleys, fp_kind, fp_out,
          date, add_days, market, s, e, price, forecast, idx, fetches,
          outcome>>

(* ------------------------------ bounds --------------------------------- *)
MaxDate == 6
MaxOffset == 6
MaxN == 21
MaxVal == 2
MaxHorizons == 4

Dates == 0..MaxDate
Offsets == (0 - MaxOffset)..MaxOffset
BaseDates == {2, 5, 6}
Horizons == {-1, 0, 2}
Responses == {<<>>, <<1>>, <<1, 2>>}
FlatClose == 2
Kinds == {"list", "ndarray"}

(* ------------------------------ helpers -------------------------------- *)
Abs(n) == IF n < 0 THEN 0 - n ELSE n

Min(a, b) == IF a < b THEN a ELSE b

RECURSIVE Gcd(_, _)
Gcd(a, b) == IF b = 0 THEN a ELSE Gcd(b, a % b)

len(a) == Cardinality(DOMAIN a)

RECURSIVE SumSeq(_)
SumSeq(q) == IF q = <<>> THEN 0 ELSE Head(q) + SumSeq(Tail(q))

(* floats: NaN or an exact non-negative rational in lowest terms *)
NaN == [nan |-> TRUE, num |-> 0, den |-> 1]

Float(n, d) == [nan |-> FALSE, num |-> n \div Gcd(n, d), den |-> d \div Gcd(n, d)]

FloatDiv(a, b) ==
    IF a.nan \/ b.nan THEN NaN ELSE Float(a.num * b.den, a.den * b.num)

(* pandas Series.mean(): NaN for an empty series *)
mean(closes) ==
    IF closes = <<>> THEN NaN ELSE Float(SumSeq(closes), Len(closes))

(* date.weekday(): Monday = 0 .. Sunday = 6 *)
weekday(d) == d % 7

(* date.strftime("%Y-%m-%d") within 2023; day 0 is 2023-05-01 *)
MonthLengths == <<31, 28, 31, 30, 31, 30, 31, 31, 30, 31, 30, 31>>

RECURSIVE YearDay(_, _)
YearDay(m, doy) ==
    IF doy < MonthLengths[m] THEN <<2023, m, doy + 1>>
    ELSE YearDay(m + 1, doy - MonthLengths[m])

strftime(d) == YearDay(1, d + 120)

(* -------------------------- BusinessCalendar --------------------------- *)
(* pd.bdate_range(a, b): the Monday-Friday dates of [a, b], ascending *)
RECURSIVE bdate_range(_, _)
bdate_range(a, b) ==
    IF a > b THEN <<>>
    ELSE IF weekday(a) < 5 THEN <<a>> \o bdate_range(a + 1, b)
    ELSE bdate_range(a + 1, b)

is_business_day(d) == Len(bdate_range(d, d)) # 0

RECURSIVE fbd_walk(_, _)
fbd_walk(od, n) ==
    IF is_business_day(od) THEN od
    ELSE IF n < 0 THEN fbd_walk(od - 1, n) ELSE fbd_walk(od + 1, n)

(* variant: walks backward also when num_days = 0 *)
RECURSIVE fbd_walk_le(_, _)
fbd_walk_le(od, n) ==
    IF is_business_day(od) THEN od
    ELSE IF n <= 0 THEN fbd_walk_le(od - 1, n) ELSE fbd_walk_le(od + 1, n)

find_business_day_le(sd, n) == fbd_walk_le(sd + n, n)

find_business_day(sd, n) == fbd_walk(sd + n, n)

RECURSIVE bd_walk(_, _, _)
bd_walk(current_date, business_days_added, n) ==
    IF business_days_added < Abs(n)
    THEN LET nxt == IF n < 0 THEN current_date - 1 ELSE current_date + 1
         IN  bd_walk(nxt,
                     IF weekday(nxt) < 5 THEN business_days_added + 1
                     ELSE business_days_added,
                     n)
    ELSE current_date

(* variant: Saturday counts as a business day (weekday() < 6) *)
RECURSIVE bd_walk_sat(_, _, _)
bd_walk_sat(current_date, business_days_added, n) ==
    IF business_days_added < Abs(n)
    THEN LET nxt == IF n < 0 THEN current_date - 1 ELSE current_date + 1
         IN  bd_walk_sat(nxt,
                         IF weekday(nxt) < 6 THEN business_days_added + 1
                         ELSE business_days_added,
                         n)
    ELSE current_date

(* variant: the num_days < 0 branch is missing, the walk always goes forward *)
RECURSIVE bd_walk_fwd(_, _, _)
bd_walk_fwd(current_date, business_days_added, n) ==
    IF business_days_added < Abs(n)
    THEN LET nxt == current_date + 1
         IN  bd_walk_fwd(nxt,
                         IF weekday(nxt) < 5 THEN business_days_added + 1
                         ELSE business_days_added,
                         n)
    ELSE current_date

business_days_sat(sd, n) == bd_walk_sat(sd, 0, n)

business_days_fwd(sd, n) == bd_walk_fwd(sd, 0, n)

business_days(sd, n) == bd_walk(sd, 0, n)

(* --------------------------- ExtremaDetector --------------------------- *)
off == 5

(* for i in range(off, len(array) - off, off) *)
RECURSIVE fpv_loop(_, _, _, _)
fpv_loop(a, i, pk, vl) ==
    IF i < len(a) - off
    THEN IF a[i - off] < a[i] /\ a[i] > a[i + off]
         THEN fpv_loop(a, i + off, Append(pk, i), vl)
         ELSE IF a[i - off] > a[i] /\ a[i] < a[i + off]
         THEN fpv_loop(a, i + off, pk, Append(vl, i))
         ELSE fpv_loop(a, i + off, pk, vl)
    ELSE <<pk, vl>>

(* variant: non-strict comparisons *)
RECURSIVE fpv_loop_le(_, _, _, _)
fpv_loop_le(a, i, pk, vl) ==
    IF i < len(a) - off
    THEN IF a[i - off] <= a[i] /\ a[i] >= a[i + off]
         THEN fpv_loop_le(a, i + off, Append(pk, i), vl)
         ELSE IF a[i - off] >= a[i] /\ a[i] <= a[i + off]
         THEN fpv_loop_le(a, i + off, pk, Append(vl, i))
         ELSE fpv_loop_le(a, i + off, pk, vl)
    ELSE <<pk, vl>>

find_peaks_valleys_le(a) == fpv_loop_le(a, off, <<>>, <<>>)

find_peaks_valleys(a) == fpv_loop(a, off, <<>>, <<>>)

(* ---------------------------- ExtremaFilter ---------------------------- *)
(* names bound in the module namespace of utils.py when filter_points runs *)
ModuleGlobals ==
    {"pd", "datetime", "timedelta", "yaml", "yf", "re", "random", "FAISS",
     "HuggingFaceEmbeddings", "CharacterTextSplitter", "TextEmbeddings",
     "DATE_FORMAT", "is_business_day", "find_business_day", "business_days",
     "pd_append", "get_price", "get_config", "get_price_date",
     "find_peaks_valleys", "filter_points", "get_forecast",
     "get_mentionedtext", "get_doc2vectext", "gen_rand_alloc"}

RECURSIVE SumArr(_, _)
SumArr(a, i) == IF i >= len(a) THEN 0 ELSE a[i] + SumArr(a, i + 1)

RECURSIVE SumSqArr(_, _)
SumSqArr(a, i) == IF i >= len(a) THEN 0 ELSE a[i] * a[i] + SumSqArr(a, i + 1)

(* percent > coef_var*0.2 with percent = abs_diff/min_diff and              *)
(* coef_var = std/mean = sqrt(n*sum(x^2) - sum(x)^2) / sum(x), data >= 0.   *)
(* numpy numbers: x/0 is inf (x > 0) or nan (x = 0), and a comparison with  *)
(* nan is False.                                                            *)
Exceeds(data, abs_diff, min_diff) ==
    LET n  == len(data)
        S  == SumArr(data, 0)
        D  == n * SumSqArr(data, 0) - S * S
    IN  IF n = 0 \/ S = 0 THEN FALSE
        ELSE IF min_diff = 0 THEN abs_diff > 0
        ELSE 25 * abs_diff * abs_diff * S * S > min_diff * min_diff * D

RECURSIVE fp_loop(_, _, _, _, _, _, _)
fp_loop(data, peak_idx, valley_idx, kind, i, peak_idx_n, valley_idx_n) ==
    IF i < Min(Len(peak_idx), Len(valley_idx))
    THEN LET abs_diff == Abs(data[peak_idx[i + 1]] - data[valley_idx[i + 1]])
             min_diff == Min(data[peak_idx[i + 1]], data[valley_idx[i + 1]])
         IN  IF min_diff = 0 /\ kind = "list"
             THEN [outcome |-> "ZeroDivisionError", peaks |-> <<>>, valleys |-> <<>>]
             ELSE IF Exceeds(data, abs_diff, min_diff)
             THEN fp_loop(data, peak_idx, valley_idx, kind, i + 1,
                          Append(peak_idx_n, peak_idx[i + 1]),
                          Append(valley_idx_n, valley_idx[i + 1]))
             ELSE fp_loop(data, peak_idx, valley_idx, kind, i + 1,
                          peak_idx_n, valley_idx_n)
    ELSE [outcome |-> "returned", peaks |-> peak_idx_n, valleys |-> valley_idx_n]

(* line 148 reads the global name np, which the module never binds *)
filter_points(data, peak_idx, valley_idx, kind) ==
    IF "np" \notin ModuleGlobals
    THEN [outcome |-> "NameError", peaks |-> <<>>, valleys |-> <<>>]
    ELSE fp_loop(data, peak_idx, valley_idx, kind, 0, <<>>, <<>>)

(* -------------------------- ForecastCalculator ------------------------- *)
(* yf.Ticker(stock).history(start, end): the rows of [start, end).  A flat  *)
(* market has one row of the same close per business day; otherwise any     *)
(* response, the empty one included, may come back.                         *)
history(mk, a, b) ==
    IF mk = "flat"
    THEN {[k \in 1..Len(bdate_range(a, b - 1)) |-> FlatClose]}
    ELSE Responses

(* variant: each horizon is measured from the base date *)
NextCursorFromBase(cursor, base, adays) == business_days(base, adays)

(* line 181: s = business_days(s, adays) *)
NextCursor(cursor, base, adays) == business_days(cursor, adays)

Fetch(a, b, r) ==
    [s |-> a, e |-> b, start |-> strftime(a), end |-> strftime(b), closes |-> r]

(* ------------------------------- inputs -------------------------------- *)
(* series whose samples off the stride grid all equal 1 *)
Arrays ==
    UNION {{[i \in 0..(n - 1) |-> IF i % off = 0 THEN g[i \div off] ELSE 1] :
               g \in [0..((n - 1) \div off) -> 0..MaxVal]} : n \in 0..MaxN}

HorizonLists == UNION {[1..L -> Horizons] : L \in 0..MaxHorizons}

Markets == {"flat", "any"}

(* ------------------------------- actions ------------------------------- *)
Init ==
    /\ call = "none"
    /\ pc = "idle"
    /\ start_date = 0
    /\ num_days = 0
    /\ out_date = 0
    /\ bd_log = <<>>
    /\ array = <<>>
    /\ peaks = <<>>
    /\ valleys = <<>>
    /\ fp_kind = "list"
    /\ fp_out = [outcome |-> "none", peaks |-> <<>>, valleys |-> <<>>]
    /\ date = 0
    /\ add_days = <<>>
    /\ market = "any"
    /\ s = 0
    /\ e = 0
    /\ price = NaN
    /\ forecast = <<>>
    /\ idx = 0
    /\ fetches = <<>>
    /\ outcome = "none"

dateVars == <<start_date, num_days, out_date, bd_log>>
extremaVars == <<array, peaks, valleys, fp_kind, fp_out>>
forecastVars == <<date, add_days, market, s, e, price, forecast, idx, fetches>>

CallFindBusinessDay ==
    /\ pc = "idle"
    /\ \E d \in Dates, n \in Offsets :
          /\ start_date' = d
          /\ num_days' = n
          /\ out_date' = find_business_day(d, n)
    /\ call' = "find_business_day"
    /\ pc' = "done"
    /\ outcome' = "returned"
    /\ UNCHANGED <<bd_log, extremaVars, forecastVars>>

CallBusinessDays ==
    /\ pc = "idle"
    /\ \E d \in Dates, n \in Offsets :
          /\ start_date' = d
          /\ num_days' = n
          /\ out_date' = business_days(d, n)
          /\ bd_log' = <<[start_date |-> d, num_days |-> n,
                          out_date |-> business_days(d, n)]>>
    /\ call' = "business_days"
    /\ pc' = "done"
    /\ outcome' = "returned"
    /\ UNCHANGED <<extremaVars, forecastVars>>

(* a second call on the date the first one returned, as lines 181-182 chain them *)
CallBusinessDaysAgain ==
    /\ call = "business_days"
    /\ pc = "done"
    /\ Len(bd_log) = 1
    /\ \E n \in Offsets :
          /\ start_date' = out_date
          /\ num_days' = n
          /\ out_date' = business_days(out_date, n)
          /\ bd_log' = Append(bd_log, [start_date |-> out_date, num_days |-> n,
                                       out_date |-> business_days(out_date, n)])
    /\ UNCHANGED <<call, pc, outcome, extremaVars, forecastVars>>

CallFindPeaksValleys ==
    /\ pc = "idle"
    /\ \E a \in Arrays :
          /\ array' = a
          /\ peaks' = find_peaks_valleys(a)[1]
          /\ valleys' = find_peaks_valleys(a)[2]
    /\ call' = "find_peaks_valleys"
    /\ pc' = "done"
    /\ outcome' = "returned"
    /\ UNCHANGED <<fp_kind, fp_out, dateVars, forecastVars>>

(* detect -> filter pipeline: filter_points on the lists the scan returned *)
CallFilterPoints ==
    /\ call = "find_peaks_valleys"
    /\ pc = "done"
    /\ \E kind \in Kinds :
          /\ fp_kind' = kind
          /\ fp_out' = filter_points(array, peaks, valleys, kind)
          /\ outcome' = filter_points(array, peaks, valleys, kind).outcome
    /\ call' = "filter_points"
    /\ UNCHANGED <<pc, array, peaks, valleys, dateVars, forecastVars>>

(* lines 173-179 *)
GetForecastStart ==
    /\ pc = "idle"
    /\ \E d \in BaseDates, ad \in HorizonLists, mk \in Markets :
          /\ date' = d
          /\ add_days' = ad
          /\ market' = mk
          /\ s' = d
          /\ e' = business_days(d, 3)
          /\ \E hdata \in history(mk, d, business_days(d, 3)) :
                /\ price' = mean(hdata)
                /\ fetches' = <<Fetch(d, business_days(d, 3), hdata)>>
    /\ forecast' = <<Float(0, 1), Float(0, 1), Float(0, 1)>>
    /\ idx' = 0
    /\ call' = "get_forecast"
    /\ pc' = "gf_loop"
    /\ UNCHANGED <<outcome, dateVars, extremaVars>>

(* lines 180-184, one iteration *)
GetForecastIterate ==
    /\ pc = "gf_loop"
    /\ idx < Len(add_days)
    /\ LET ns == NextCursor(s, date, add_days[idx + 1])
           ne == business_days(ns, 3)
       IN  /\ s' = ns
           /\ e' = ne
           /\ \E hdata \in history(market, ns, ne) :
                 /\ fetches' = Append(fetches, Fetch(ns, ne, hdata))
                 /\ IF idx < Len(forecast)
                    THEN /\ forecast' = [forecast EXCEPT
                                           ![idx + 1] = FloatDiv(mean(hdata), price)]
                         /\ idx' = idx + 1
                         /\ UNCHANGED <<pc, outcome>>
                    ELSE /\ outcome' = "IndexError"
                         /\ pc' = "done"
                         /\ UNCHANGED <<forecast, idx>>
    /\ UNCHANGED <<call, date, add_days, market, price, dateVars, extremaVars>>

(* line 186 *)
GetForecastReturn ==
    /\ pc = "gf_loop"
    /\ idx = Len(add_days)
    /\ outcome' = "returned"
    /\ pc' = "done"
    /\ UNCHANGED <<call, dateVars, extremaVars, forecastVars>>

(* the call is over; nothing survives it *)
Finish ==
    /\ pc = "done"
    /\ call' = "none"
    /\ pc' = "idle"
    /\ start_date' = 0
    /\ num_days' = 0
    /\ out_date' = 0
    /\ bd_log' = <<>>
    /\ array' = <<>>
    /\ peaks' = <<>>
    /\ valleys' = <<>>
    /\ fp_kind' = "list"
    /\ fp_out' = [outcome |-> "none", peaks |-> <<>>, valleys |-> <<>>]
    /\ date' = 0
    /\ add_days' = <<>>
    /\ market' = "any"
    /\ s' = 0
    /\ e' = 0
    /\ price' = NaN
    /\ forecast' = <<>>
    /\ idx' = 0
    /\ fetches' = <<>>
    /\ outcome' = "none"

Next ==
    \/ CallFindBusinessDay
    \/ CallBusinessDays
    \/ CallBusinessDaysAgain
    \/ CallFindPeaksValleys
    \/ CallFilterPoints
    \/ GetForecastStart
    \/ GetForecastIterate
    \/ GetForecastReturn
    \/ Finish

Spec == Init /\ [][Next]_vars

TypeOK ==
    /\ pc \in {"idle", "gf_loop", "done"}
    /\ outcome \in {"none", "returned", "IndexError", "NameError", "ZeroDivisionError"}

(* ------------------------------ properties ---------------------------- *)
ForecastDone == call = "get_forecast" /\ pc = "done"

(* the ratio the k-th horizon's window gives: its mean close over the baseline *)
Ratio(k) == FloatDiv(mean(fetches[k + 1].closes), mean(fetches[1].closes))

(* C1: get_forecast returns, for a horizon list of any length, a vector of   *)
(* the same length whose k-th entry is the ratio computed for the k-th       *)
(* horizon; no placeholder entries, no failure because of the list length.   *)
C1_ForecastAlignedWithHorizons ==
    ForecastDone =>
        /\ outcome = "returned"
        /\ Len(forecast) = Len(add_days)
        /\ \A k \in 1..Len(add_days) : forecast[k] = Ratio(k)

FilterDone == call = "filter_points" /\ pc = "done"

PairCount == Min(Len(peaks), Len(valleys))

PairBase(i) == Min(array[peaks[i]], array[valleys[i]])

PairKept(i) ==
    Exceeds(array, Abs(array[peaks[i]] - array[valleys[i]]), PairBase(i))

RECURSIVE KeptOf(_, _)
KeptOf(q, i) ==
    IF i > PairCount THEN <<>>
    ELSE IF PairKept(i) THEN <<q[i]>> \o KeptOf(q, i + 1)
    ELSE KeptOf(q, i + 1)

(* C2: filter_points pairs the i-th peak with the i-th valley and returns    *)
(* exactly the pairs whose amplitude ratio is strictly above 0.2 * cv, in    *)
(* order; both members of a pair are kept or dropped together.               *)
C2_FilterKeepsExactlyStrongPairs ==
    (FilterDone /\ \A i \in 1..PairCount : PairBase(i) # 0) =>
        /\ fp_out.outcome = "returned"
        /\ fp_out.peaks = KeptOf(peaks, 1)
        /\ fp_out.valleys = KeptOf(valleys, 1)
        /\ Len(fp_out.peaks) = Len(fp_out.valleys)
        /\ Len(fp_out.peaks) <= PairCount

(* C3: a positional pair whose base min(V[peak], V[valley]) is 0 makes       *)
(* filter_points end in an explicit InvalidInputError.                       *)
C3_ZeroBaseRaisesInvalidInput ==
    (FilterDone /\ \E i \in 1..PairCount : PairBase(i) = 0) =>
        fp_out.outcome = "InvalidInputError"

ScanDone == call = "find_peaks_valleys" /\ pc = "done"

Elems(q) == {q[i] : i \in 1..Len(q)}

Increasing(q) == \A i \in 1..(Len(q) - 1) : q[i] < q[i + 1]

GridIndices == {i \in 0..(len(array) - 1) : i % 5 = 0 /\ i >= 5 /\ i < len(array) - 5}

(* C4: find_peaks_valleys returns as peaks exactly the indices i of          *)
(* {5, 10, ...}, i < n-5, with V[i-5] < V[i] > V[i+5], as valleys exactly    *)
(* those with V[i-5] > V[i] < V[i+5]; both lists strictly increasing, within *)
(* [5, n-5), disjoint, and empty for n < 11.                                 *)
C4_ScanReturnsExactlyGridExtrema ==
    ScanDone =>
        /\ outcome = "returned"
        /\ Elems(peaks) = {i \in GridIndices :
                             array[i - 5] < array[i] /\ array[i] > array[i + 5]}
        /\ Elems(valleys) = {i \in GridIndices :
                               array[i - 5] > array[i] /\ array[i] < array[i + 5]}
        /\ Increasing(peaks)
        /\ Increasing(valleys)
        /\ \A i \in Elems(peaks) \cup Elems(valleys) : 5 <= i /\ i < len(array) - 5
        /\ Elems(peaks) \cap Elems(valleys) = {}
        /\ (len(array) < 11 => peaks = <<>> /\ valleys = <<>>)

C4_Witness ==
    /\ ScanDone
    /\ len(array) = 21
    /\ peaks = <<5, 15>>
    /\ valleys = <<10>>

BusinessDaysDone == call = "business_days" /\ pc = "done"

(* the Monday-Friday dates after a up to b, or from b up to before a *)
WeekdaysBetween(a, b) ==
    IF a <= b THEN {x \in (a + 1)..b : x % 7 < 5}
    ELSE {x \in b..(a - 1) : x % 7 < 5}

(* C5: business_days(d, 0) = d, also on a weekend; for n # 0 the result is   *)
(* a Monday-Friday date on the sign-of-n side of d with exactly |n| weekdays *)
(* between d (exclusive) and the result (inclusive).                         *)
C5_BusinessDaysCountsWeekdaySteps ==
    (BusinessDaysDone /\ Len(bd_log) = 1) =>
        IF num_days = 0 THEN out_date = start_date
        ELSE /\ out_date % 7 < 5
             /\ (num_days > 0 => out_date > start_date)
             /\ (num_days < 0 => out_date < start_date)
             /\ Cardinality(WeekdaysBetween(start_date, out_date)) = Abs(num_days)

C5_Witness ==
    /\ BusinessDaysDone
    /\ Len(bd_log) = 1
    /\ start_date = 2
    /\ num_days = 5
    /\ out_date = 9

FindDone == call = "find_business_day" /\ pc = "done"

(* C6: find_business_day(d, n) is the first Monday-Friday date at or after   *)
(* d+n when n >= 0 and the first at or before d+n when n < 0.                *)
C6_FindBusinessDaySnaps ==
    FindDone =>
        /\ out_date % 7 < 5
        /\ (num_days >= 0 =>
              /\ out_date >= start_date + num_days
              /\ \A x \in (start_date + num_days)..(out_date - 1) : x % 7 >= 5)
        /\ (num_days < 0 =>
              /\ out_date <= start_date + num_days
              /\ \A x \in (out_date + 1)..(start_date + num_days) : x % 7 >= 5)
        /\ (num_days = 0 /\ start_date % 7 < 5 => out_date = start_date)
        /\ (num_days = 0 /\ start_date % 7 >= 5 => out_date > start_date)

C6_Witness ==
    /\ FindDone
    /\ start_date = 5
    /\ num_days = 0
    /\ out_date = 7

C8_EmptyWindowsYieldNaN ==
    ForecastDone =>
        /\ outcome = "returned"
        /\ \A k \in 1..Len(add_days) :
              /\ k <= Len(forecast)
              /\ (fetches[k + 1].closes = <<>> => forecast[k] = NaN)
              /\ (fetches[k + 1].closes # <<>> /\ fetches[1].closes # <<>> =>
                    forecast[k] = Ratio(k) /\ ~forecast[k].nan)

(* C9: on a flat market get_forecast returns a vector whose every entry is   *)
(* 1.0, for every base date and horizon list; every fetched window holds at  *)
(* least one business day.                                                   *)
C9_FlatMarketGivesAllOnes ==
    (ForecastDone /\ market = "flat") =>
        /\ outcome = "returned"
        /\ \A k \in 1..Len(fetches) : fetches[k].closes # <<>>
        /\ \A k \in 1..Len(forecast) : forecast[k] = Float(1, 1)

RECURSIVE SumFirst(_, _)
SumFirst(q, k) == IF k = 0 THEN 0 ELSE q[k] + SumFirst(q, k - 1)

StoredEntriesAreNaNOrRatio ==
    call = "get_forecast" =>
        /\ \A k \in 1..idx :
              /\ (fetches[k + 1].closes = <<>> => forecast[k] = NaN)
              /\ (fetches[k + 1].closes # <<>> /\ fetches[1].closes # <<>> =>
                    forecast[k] = Ratio(k) /\ ~forecast[k].nan)
        /\ (outcome = "IndexError" <=> pc = "done" /\ Len(add_days) > 3)

(* what get_forecast does keep of C9: on a flat market no window is empty    *)
(* and every computed entry is 1.0; the entries never computed stay 0.       *)
FlatMarketComputedEntriesAreOne ==
    (call = "get_forecast" /\ market = "flat") =>
        /\ \A k \in 1..Len(fetches) : fetches[k].closes # <<>>
        /\ \A k \in 1..idx : forecast[k] = Float(1, 1)
        /\ \A k \in (idx + 1)..Len(forecast) : forecast[k] = Float(0, 1)

====
